---- MODULE Spec2Model ----
(***************************************************************************)
(* The wallet ledger of MetroMart: the wallet tables, the transaction log  *)
(* and the four money-movement handlers of app/services/commands.py        *)
(* (fund, withdraw, transfer, pay), each run by a request worker with its  *)
(* own database session.  A handler reads its wallet rows, validates them  *)
(* on the objects it loaded, and commits absolute balances together with   *)
(* its transaction rows in one database transaction.  The steps of a       *)
(* handler are its database round trips: the checks between a query and    *)
(* the commit touch only the loaded objects and are taken with the query.  *)
(* Money amounts are whole currency units.                                 *)
(***************************************************************************)
EXTENDS Integers, Sequences, FiniteSets, TLC

\* ------------------------------------------------------------------ bounds
\* Longest transaction log explored.
MaxTxns == 3

\* Longest transaction log explored when every engine operation is taken from
\* open wallets.
MaxEngineTxns == 4

\* Most owner rows explored, over the three owner tables.
MaxOwners == 2

\* ------------------------------------------------------ program constants
\* VendorWallet.minimum_withdrawal and RiderWallet.minimum_withdrawal defaults.
VendorMinimumWithdrawal == 1000
RiderMinimumWithdrawal == 500

\* ------------------------------------------------------------ input sets
Procs == {"p1", "p2"}
Kinds == {"user", "vendor", "rider"}
\* The (wallet_type, owner_id) pairs requests carry: user 1, vendor 1 and rider 1
\* have registered, user 2 has not.
Parties == {<<"user", 1>>, <<"user", 2>>, <<"vendor", 1>>, <<"rider", 1>>}
\* "admin" is not a wallet type.
WithdrawParties == Parties \cup {<<"admin", 1>>}
\* Balance queries may also carry a non-positive owner id.
BalanceParties == WithdrawParties \cup {<<"user", 0>>}
UserIds == {1, 2}
Amounts == {-500, 0, 500, 1000}
OrderIds == {7}

\* A missing row (None) and a NULL column.
NULL == 0
NoWallet ==
  [id |-> NULL, owner_id |-> NULL, balance |-> 0, is_active |-> FALSE,
   is_locked |-> FALSE, minimum_withdrawal |-> 0, pending_balance |-> 0,
   transaction_pin |-> NULL, last_transaction_at |-> NULL]

NoCmd ==
  [op |-> "none", kind |-> "user", owner |-> 0, rkind |-> "user", rowner |-> 0,
   amount |-> 0, order_id |-> 0]

\* Registration inputs: an empty string is a missing field.
Emails == {"", "a", "b"}
FirebaseUids == {"", "x", "y"}
OwnerIds == 1..MaxOwners
Pins == {1234}
TransactionIds == 1..(MaxEngineTxns + 1)
Limits == {1, 50}
Offsets == {0, 1}

VARIABLES
  owners,    \* <<kind, id>> -> owner row (users, vendors, riders)
  wallets,   \* <<kind, id>> -> wallet row (user_wallets, vendor_wallets, rider_wallets)
  txns,      \* wallet_transactions, in insertion order
  clock,     \* datetime.utcnow(), as a logical time
  pc,        \* where each request worker stands in its handler
  cmd,       \* the command the worker is handling
  snap,      \* the wallet object loaded by the handler's first query
  snap2,     \* the recipient wallet object loaded by a transfer
  found,     \* the transaction rows a lookup returns
  result     \* "ok" or the detail of the HTTPException raised

vars == <<owners, wallets, txns, clock, pc, cmd, snap, snap2, found, result>>

\* ------------------------------------------------------------- the store
\* minimum_withdrawal column default of a new wallet row (none on user_wallets).
DefaultMinimum(kind) ==
  CASE kind = "vendor" -> VendorMinimumWithdrawal
    [] kind = "rider" -> RiderMinimumWithdrawal
    [] OTHER -> 0

\* A wallet row as its table's column defaults make it.
NewWallet(kind, id, owner_id) ==
  [id |-> id, owner_id |-> owner_id, balance |-> 0, is_active |-> TRUE,
   is_locked |-> FALSE, minimum_withdrawal |-> DefaultMinimum(kind),
   pending_balance |-> 0, transaction_pin |-> NULL, last_transaction_at |-> NULL]

\* The wallets present at the start.  Each table numbers its rows itself, so a
\* primary key need not equal the owner id.
InitWalletId ==
  (<<"user", 1>> :> 2) @@ (<<"vendor", 1>> :> 1) @@ (<<"rider", 1>> :> 2)

\* An owner row: the two columns its table keeps unique.
Owner(email, firebase_uid) == [email |-> email, firebase_uid |-> firebase_uid]

\* The owners of those wallets.
InitOwners == [k \in DOMAIN InitWalletId |-> Owner("a", "x")]

\* The rows of a wallet table that carry an owner id.
WalletsOf(ws, kind, owner) ==
  {k \in DOMAIN ws : k[1] = kind /\ ws[k].owner_id = owner}

\* db.query(<Kind>Wallet).filter(<Kind>Wallet.<kind>_id == owner_id).first()
GetWallet(kind, owner) ==
  LET rows == WalletsOf(wallets, kind, owner)
  IN IF rows = {} THEN NoWallet
     ELSE wallets[CHOOSE k \in rows : \A j \in rows : k[2] <= j[2]]

\* A row that always carries the wallet id in user_wallet_id as well: C19
\* depends on the one column chosen by kind.
TxnUserColumnToo(id, kind, wid, type, status, amount, before, after, reftype, refid) ==
  [id |-> id, created_at |-> clock,
   user_wallet_id |-> wid,
   vendor_wallet_id |-> IF kind = "vendor" THEN wid ELSE NULL,
   rider_wallet_id |-> IF kind = "rider" THEN wid ELSE NULL,
   transaction_type |-> type, status |-> status, amount |-> amount,
   balance_before |-> before, balance_after |-> after,
   reference_type |-> reftype, reference_id |-> refid]

\* A wallet_transactions row; exactly the column named by kind carries the wallet
\* id.  created_at is the database's now() when the row is inserted, the time
\* before the commit.
Txn(id, kind, wid, type, status, amount, before, after, reftype, refid) ==
  [id |-> id, created_at |-> clock,
   user_wallet_id |-> IF kind = "user" THEN wid ELSE NULL,
   vendor_wallet_id |-> IF kind = "vendor" THEN wid ELSE NULL,
   rider_wallet_id |-> IF kind = "rider" THEN wid ELSE NULL,
   transaction_type |-> type, status |-> status, amount |-> amount,
   balance_before |-> before, balance_after |-> after,
   reference_type |-> reftype, reference_id |-> refid]

\* The flush of one dirty wallet object: UPDATE ... SET balance, last_transaction_at
\* WHERE id = the loaded row's.  A column whose value equals the loaded one is
\* left out.
WriteWallet(ws, kind, loaded, balance, at) ==
  IF <<kind, loaded.id>> \in DOMAIN ws
    THEN [ws EXCEPT ![<<kind, loaded.id>>] =
           [@ EXCEPT !.balance = IF balance = loaded.balance THEN @ ELSE balance,
                     !.last_transaction_at = at]]
    ELSE ws

\* The log explored has room for a row: requests that may write are taken then.
LogHasRoom == Len(txns) < MaxTxns

\* The log explored has room for the n rows of a commit.
LogHasRoomFor(n) == Len(txns) + n <= MaxTxns

\* The worker leaves its handler with an outcome.
Finish(p, outcome) ==
  /\ pc' = [pc EXCEPT ![p] = "done"]
  /\ result' = [result EXCEPT ![p] = outcome]

Goto(p, label) ==
  /\ pc' = [pc EXCEPT ![p] = label]
  /\ UNCHANGED result

\* After its checks the handler goes on to label, or raises.
Checked(p, outcome, label) ==
  IF outcome = "ok" THEN Goto(p, label) ELSE Finish(p, outcome)

\* ------------------------------------------------------------------ fund
\* FundUserWalletHandler.handle, the checks up to the commit; w is the loaded wallet.
FundCheck(c, w) ==
  IF c.amount <= 0 THEN "Amount must be greater than zero"
  ELSE IF w.id = NULL THEN "User wallet not found"
  ELSE IF ~w.is_active THEN "Wallet is not active"
  ELSE IF w.is_locked THEN "Wallet is locked"
  ELSE "ok"

\* A fund request arrives: the amount check, the wallet query, the wallet checks.
FundRead(p) ==
  /\ pc[p] = "idle"
  /\ \E u \in UserIds, a \in Amounts :
       LET c == [NoCmd EXCEPT !.op = "fund", !.owner = u, !.amount = a]
           w == IF a <= 0 THEN NoWallet ELSE GetWallet("user", u)
       IN /\ cmd' = [cmd EXCEPT ![p] = c]
          /\ snap' = [snap EXCEPT ![p] = w]
          /\ Checked(p, FundCheck(c, w), "fund_commit")
  /\ UNCHANGED <<owners, wallets, txns, clock, snap2, found>>

\* A fund commit that inserts its row and leaves the balance: C13 depends on the
\* balance being written.
FundCommitUncredited(p) ==
  /\ pc[p] = "fund_commit"
  /\ txns' = Append(txns, Txn(Len(txns) + 1, "user", snap[p].id, "deposit",
                              "completed", cmd[p].amount, snap[p].balance,
                              snap[p].balance + cmd[p].amount, "funding", NULL))
  /\ clock' = clock + 1
  /\ Finish(p, "ok")
  /\ UNCHANGED <<owners, wallets, cmd, snap, snap2, found>>

FundCommit(p) ==
  /\ pc[p] = "fund_commit"
  /\ LET balance_before == snap[p].balance
         balance_after == balance_before + cmd[p].amount
     IN /\ wallets' = WriteWallet(wallets, "user", snap[p],
                                  balance_after, clock + 1)
        /\ txns' = Append(txns, Txn(Len(txns) + 1, "user", snap[p].id, "deposit",
                                    "completed", cmd[p].amount, balance_before,
                                    balance_after, "funding", NULL))
  /\ clock' = clock + 1
  /\ Finish(p, "ok")
  /\ UNCHANGED <<owners, cmd, snap, snap2, found>>

\* -------------------------------------------------------------- withdraw
\* The withdraw checks without the balance test: C2 depends on that test.
WithdrawCheckNoBalance(c, w) ==
  IF c.amount <= 0 THEN "Amount must be greater than zero"
  ELSE IF c.kind \notin Kinds THEN "Invalid wallet type"
  ELSE IF c.kind \in {"vendor", "rider"} /\ w.id # NULL /\ c.amount < w.minimum_withdrawal
    THEN "Minimum withdrawal amount"
  ELSE IF w.id = NULL THEN "wallet not found"
  ELSE IF ~w.is_active THEN "Wallet is not active"
  ELSE IF w.is_locked THEN "Wallet is locked"
  ELSE "ok"

\* The withdraw checks without the minimum: C15 depends on it.
WithdrawCheckNoMinimum(c, w) ==
  IF c.amount <= 0 THEN "Amount must be greater than zero"
  ELSE IF c.kind \notin Kinds THEN "Invalid wallet type"
  ELSE IF w.id = NULL THEN "wallet not found"
  ELSE IF ~w.is_active THEN "Wallet is not active"
  ELSE IF w.is_locked THEN "Wallet is locked"
  ELSE IF w.balance < c.amount THEN "Insufficient wallet balance"
  ELSE "ok"

\* The withdraw checks without the lock test: C9 depends on that test.
WithdrawCheckNoLock(c, w) ==
  IF c.amount <= 0 THEN "Amount must be greater than zero"
  ELSE IF c.kind \notin Kinds THEN "Invalid wallet type"
  ELSE IF c.kind \in {"vendor", "rider"} /\ w.id # NULL /\ c.amount < w.minimum_withdrawal
    THEN "Minimum withdrawal amount"
  ELSE IF w.id = NULL THEN "wallet not found"
  ELSE IF ~w.is_active THEN "Wallet is not active"
  ELSE IF w.balance < c.amount THEN "Insufficient wallet balance"
  ELSE "ok"

\* WithdrawFromWalletHandler.handle, the checks up to the commit; the minimum of
\* a vendor or rider wallet is checked right after its query.
WithdrawCheck(c, w) ==
  IF c.amount <= 0 THEN "Amount must be greater than zero"
  ELSE IF c.kind \notin Kinds THEN "Invalid wallet type"
  ELSE IF c.kind \in {"vendor", "rider"} /\ w.id # NULL /\ c.amount < w.minimum_withdrawal
    THEN "Minimum withdrawal amount"
  ELSE IF w.id = NULL THEN "wallet not found"
  ELSE IF ~w.is_active THEN "Wallet is not active"
  ELSE IF w.is_locked THEN "Wallet is locked"
  ELSE IF w.balance < c.amount THEN "Insufficient wallet balance"
  ELSE "ok"

WithdrawRead(p) ==
  /\ pc[p] = "idle"
  /\ \E party \in WithdrawParties, a \in Amounts :
       LET c == [NoCmd EXCEPT !.op = "withdraw", !.kind = party[1], !.owner = party[2],
                              !.amount = a]
           w == IF a <= 0 \/ party[1] \notin Kinds
                  THEN NoWallet ELSE GetWallet(party[1], party[2])
       IN /\ cmd' = [cmd EXCEPT ![p] = c]
          /\ snap' = [snap EXCEPT ![p] = w]
          /\ Checked(p, WithdrawCheck(c, w), "withdraw_commit")
  /\ UNCHANGED <<owners, wallets, txns, clock, snap2, found>>

\* A withdraw commit that also books the amount as pending on the wallet: C26
\* depends on the handlers writing balance and last_transaction_at only.
WithdrawCommitPending(p) ==
  /\ pc[p] = "withdraw_commit"
  /\ wallets' = [WriteWallet(wallets, cmd[p].kind, snap[p],
                             snap[p].balance - cmd[p].amount, clock + 1)
                   EXCEPT ![<<cmd[p].kind, snap[p].id>>].pending_balance =
                            @ + cmd[p].amount]
  /\ txns' = Append(txns, Txn(Len(txns) + 1, cmd[p].kind, snap[p].id, "withdrawal",
                              "pending", cmd[p].amount, snap[p].balance,
                              snap[p].balance - cmd[p].amount, "withdrawal", NULL))
  /\ clock' = clock + 1
  /\ Finish(p, "ok")
  /\ UNCHANGED <<owners, cmd, snap, snap2, found>>

\* A withdraw commit that records the withdrawal as completed: C14 depends on
\* the status it stores.
WithdrawCommitCompleted(p) ==
  /\ pc[p] = "withdraw_commit"
  /\ wallets' = WriteWallet(wallets, cmd[p].kind, snap[p],
                            snap[p].balance - cmd[p].amount, clock + 1)
  /\ txns' = Append(txns, Txn(Len(txns) + 1, cmd[p].kind, snap[p].id, "withdrawal",
                              "completed", cmd[p].amount, snap[p].balance,
                              snap[p].balance - cmd[p].amount, "withdrawal", NULL))
  /\ clock' = clock + 1
  /\ Finish(p, "ok")
  /\ UNCHANGED <<owners, cmd, snap, snap2, found>>

WithdrawCommit(p) ==
  /\ pc[p] = "withdraw_commit"
  /\ LET balance_before == snap[p].balance
         balance_after == balance_before - cmd[p].amount
     IN /\ wallets' = WriteWallet(wallets, cmd[p].kind, snap[p],
                                  balance_after, clock + 1)
        /\ txns' = Append(txns, Txn(Len(txns) + 1, cmd[p].kind, snap[p].id, "withdrawal",
                                    "pending", cmd[p].amount, balance_before,
                                    balance_after, "withdrawal", NULL))
  /\ clock' = clock + 1
  /\ Finish(p, "ok")
  /\ UNCHANGED <<owners, cmd, snap, snap2, found>>

\* ------------------------------------------------------------------- pay
\* The pay checks without the balance test: C16 depends on it.
PayCheckNoBalance(c, w) ==
  IF w.id = NULL THEN "User wallet not found"
  ELSE IF ~w.is_active \/ w.is_locked THEN "Wallet is not available"
  ELSE "ok"

\* ProcessOrderPaymentHandler.handle, the checks up to the commit.
PayCheck(c, w) ==
  IF w.id = NULL THEN "User wallet not found"
  ELSE IF ~w.is_active \/ w.is_locked THEN "Wallet is not available"
  ELSE IF w.balance < c.amount THEN "Insufficient wallet balance"
  ELSE "ok"

\* A pay handler that debits the loaded wallet before it checks it: C7 depends
\* on the checks coming before every write.
PayReadDebitFirst(p) ==
  /\ pc[p] = "idle"
  /\ \E u \in UserIds, a \in Amounts, o \in OrderIds :
       LET c == [NoCmd EXCEPT !.op = "pay", !.owner = u, !.amount = a, !.order_id = o]
           w == GetWallet("user", u)
       IN /\ cmd' = [cmd EXCEPT ![p] = c]
          /\ snap' = [snap EXCEPT ![p] = w]
          /\ wallets' = WriteWallet(wallets, "user", w, w.balance - a, clock)
          /\ Checked(p, PayCheck(c, w), "pay_commit")
  /\ UNCHANGED <<owners, txns, clock, snap2, found>>

PayRead(p) ==
  /\ pc[p] = "idle"
  /\ \E u \in UserIds, a \in Amounts, o \in OrderIds :
       LET c == [NoCmd EXCEPT !.op = "pay", !.owner = u, !.amount = a, !.order_id = o]
           w == GetWallet("user", u)
       IN /\ cmd' = [cmd EXCEPT ![p] = c]
          /\ snap' = [snap EXCEPT ![p] = w]
          /\ Checked(p, PayCheck(c, w), "pay_commit")
  /\ UNCHANGED <<owners, wallets, txns, clock, snap2, found>>

PayCommit(p) ==
  /\ pc[p] = "pay_commit"
  /\ LET balance_before == snap[p].balance
         balance_after == balance_before - cmd[p].amount
     IN /\ wallets' = WriteWallet(wallets, "user", snap[p],
                                  balance_after, clock + 1)
        /\ txns' = Append(txns, Txn(Len(txns) + 1, "user", snap[p].id, "payment",
                                    "completed", cmd[p].amount, balance_before,
                                    balance_after, "order", cmd[p].order_id))
  /\ clock' = clock + 1
  /\ Finish(p, "ok")
  /\ UNCHANGED <<owners, cmd, snap, snap2, found>>

\* -------------------------------------------------------------- transfer
\* TransferBetweenWalletsHandler._get_wallet: None for an unknown wallet type.
TransferGetWallet(wallet_type, owner_id) ==
  IF wallet_type \in Kinds THEN GetWallet(wallet_type, owner_id) ELSE NoWallet

\* Transfer checks that look at the recipient before the sender's balance: C27
\* depends on the order of the checks.
TransferCheckRecipientFirst(c, s, r) ==
  IF c.amount <= 0 THEN "Amount must be greater than zero"
  ELSE IF s.id = NULL THEN "Sender wallet not found"
  ELSE IF r.id = NULL THEN "Recipient wallet not found"
  ELSE IF ~s.is_active \/ s.is_locked THEN "Sender wallet is not available"
  ELSE IF ~r.is_active THEN "Recipient wallet is not active"
  ELSE IF s.balance < c.amount THEN "Insufficient sender wallet balance"
  ELSE "ok"

\* Transfer checks that ask the sender to have a PIN: C25 depends on the handler
\* never reading transaction_pin.
TransferCheckPinRequired(c, s, r) ==
  IF c.amount <= 0 THEN "Amount must be greater than zero"
  ELSE IF s.id = NULL THEN "Sender wallet not found"
  ELSE IF r.id = NULL THEN "Recipient wallet not found"
  ELSE IF ~s.is_active \/ s.is_locked THEN "Sender wallet is not available"
  ELSE IF s.transaction_pin = NULL THEN "Transaction PIN not set"
  ELSE IF s.balance < c.amount THEN "Insufficient sender wallet balance"
  ELSE IF ~r.is_active THEN "Recipient wallet is not active"
  ELSE "ok"

\* TransferBetweenWalletsHandler.handle, the checks in the order the handler makes
\* them, on the sender object s and the recipient object r.
TransferCheck(c, s, r) ==
  IF c.amount <= 0 THEN "Amount must be greater than zero"
  ELSE IF s.id = NULL THEN "Sender wallet not found"
  ELSE IF r.id = NULL THEN "Recipient wallet not found"
  ELSE IF ~s.is_active \/ s.is_locked THEN "Sender wallet is not available"
  ELSE IF s.balance < c.amount THEN "Insufficient sender wallet balance"
  ELSE IF ~r.is_active THEN "Recipient wallet is not active"
  ELSE "ok"

\* The checks made before the recipient is queried.
TransferSenderCheck(c, s) ==
  IF c.amount <= 0 THEN "Amount must be greater than zero"
  ELSE IF s.id = NULL THEN "Sender wallet not found"
  ELSE "ok"

\* A transfer request arrives: the amount check and the sender query.
TransferReadSender(p) ==
  /\ pc[p] = "idle"
  /\ \E sender \in Parties, recipient \in Parties, a \in Amounts :
       LET c == [NoCmd EXCEPT !.op = "transfer", !.kind = sender[1], !.owner = sender[2],
                              !.rkind = recipient[1], !.rowner = recipient[2],
                              !.amount = a]
           s == IF a <= 0 THEN NoWallet ELSE TransferGetWallet(sender[1], sender[2])
       IN /\ cmd' = [cmd EXCEPT ![p] = c]
          /\ snap' = [snap EXCEPT ![p] = s]
          /\ Checked(p, TransferSenderCheck(c, s), "transfer_read2")
  /\ UNCHANGED <<owners, wallets, txns, clock, snap2, found>>

\* The recipient query and the checks on both objects.  A row the session has
\* already loaded comes back as the same object, with the attributes it was
\* loaded with.
TransferReadRecipient(p) ==
  /\ pc[p] = "transfer_read2"
  /\ LET r == IF <<cmd[p].rkind, cmd[p].rowner>> = <<cmd[p].kind, cmd[p].owner>>
                THEN snap[p]
                ELSE TransferGetWallet(cmd[p].rkind, cmd[p].rowner)
     IN /\ snap2' = [snap2 EXCEPT ![p] = r]
        /\ Checked(p, TransferCheck(cmd[p], snap[p], r), "transfer_commit")
  /\ UNCHANGED <<owners, wallets, txns, clock, cmd, snap, found>>

\* A transfer whose commit stores the sender's row only: C8 depends on both
\* rows being written by the one commit.
TransferWriteSenderOnly(ws, c, s, r, sender_after, recipient_after, at) ==
  WriteWallet(ws, c.kind, s, sender_after, at)

\* The wallet rows after the transfer's two assignments and its commit.  When
\* sender and recipient are one object the second assignment overwrites the first.
TransferWrite(ws, c, s, r, sender_after, recipient_after, at) ==
  IF <<c.kind, c.owner>> = <<c.rkind, c.rowner>>
    THEN WriteWallet(ws, c.rkind, r, recipient_after, at)
    ELSE WriteWallet(WriteWallet(ws, c.kind, s, sender_after, at),
                     c.rkind, r, recipient_after, at)

\* Transfer rows whose debit stores the unsigned amount: C5 depends on the sign.
TransferTxnsUnsigned(n, c, s, r) ==
  << Txn(n + 1, c.kind, s.id, "transfer", "completed", c.amount,
         s.balance, s.balance - c.amount, "transfer_out", NULL),
     Txn(n + 2, c.rkind, r.id, "transfer", "completed", c.amount,
         r.balance, r.balance + c.amount, "transfer_in", NULL) >>

\* The two rows the transfer inserts, the debit first.
TransferTxns(n, c, s, r) ==
  << Txn(n + 1, c.kind, s.id, "transfer", "completed", 0 - c.amount,
         s.balance, s.balance - c.amount, "transfer_out", NULL),
     Txn(n + 2, c.rkind, r.id, "transfer", "completed", c.amount,
         r.balance, r.balance + c.amount, "transfer_in", NULL) >>

TransferCommit(p) ==
  /\ pc[p] = "transfer_commit"
  /\ LET sender_balance_after == snap[p].balance - cmd[p].amount
         recipient_balance_after == snap2[p].balance + cmd[p].amount
     IN wallets' = TransferWrite(wallets, cmd[p], snap[p], snap2[p],
                                 sender_balance_after, recipient_balance_after, clock + 1)
  /\ txns' = txns \o TransferTxns(Len(txns), cmd[p], snap[p], snap2[p])
  /\ clock' = clock + 1
  /\ Finish(p, "ok")
  /\ UNCHANGED <<owners, cmd, snap, snap2, found>>

\* ------------------------------------------------------- a failing commit
\* The steps at which a handler calls self.db.commit().
CommitLabels == {"fund_commit", "withdraw_commit", "pay_commit", "transfer_commit"}

\* A failing commit whose wallet UPDATE had been committed on its own before the
\* row was inserted: C21 depends on the one commit covering both writes.
CommitFailsBalanceKept(p) ==
  /\ pc[p] \in CommitLabels
  /\ wallets' = WriteWallet(wallets, cmd[p].kind, snap[p],
                            IF cmd[p].op = "fund" THEN snap[p].balance + cmd[p].amount
                            ELSE snap[p].balance - cmd[p].amount, clock + 1)
  /\ clock' = clock + 1
  /\ Finish(p, "OperationalError")
  /\ UNCHANGED <<owners, txns, cmd, snap, snap2, found>>

\* self.db.commit() raises.  The handler has assigned the balances on its loaded
\* objects and added its rows to the session, and that commit is its only one:
\* the UPDATEs and INSERTs it flushes are in the database transaction that is
\* rolled back, and the exception leaves the handler.
CommitFails(p) ==
  /\ pc[p] \in CommitLabels
  /\ Finish(p, "OperationalError")
  /\ UNCHANGED <<owners, wallets, txns, clock, cmd, snap, snap2, found>>

\* ----------------------------------------------------------- get_balance
\* GetWalletBalanceQueryHandler.handle, the checks on the query and the loaded wallet.
GetBalanceCheck(c, w) ==
  IF c.kind \notin Kinds THEN "Invalid wallet type"
  ELSE IF c.owner <= 0 THEN "Invalid ID"
  ELSE IF w.id = NULL THEN "No wallet found"
  ELSE "ok"

\* A balance query that stamps the wallet it reads: C22 depends on the query
\* handlers writing nothing.
GetBalanceStamping(p) ==
  /\ pc[p] = "idle"
  /\ \E party \in BalanceParties :
       LET c == [NoCmd EXCEPT !.op = "get_balance", !.kind = party[1], !.owner = party[2]]
           w == IF party[1] \notin Kinds \/ party[2] <= 0
                  THEN NoWallet ELSE GetWallet(party[1], party[2])
       IN /\ cmd' = [cmd EXCEPT ![p] = c]
          /\ snap' = [snap EXCEPT ![p] = w]
          /\ wallets' = WriteWallet(wallets, party[1], w, w.balance, clock + 1)
          /\ Finish(p, GetBalanceCheck(c, w))
  /\ UNCHANGED <<owners, txns, clock, snap2, found>>

\* A balance query: one read; the wallet object read is what is returned.
GetBalance(p) ==
  /\ pc[p] = "idle"
  /\ \E party \in BalanceParties :
       LET c == [NoCmd EXCEPT !.op = "get_balance", !.kind = party[1], !.owner = party[2]]
           w == IF party[1] \notin Kinds \/ party[2] <= 0
                  THEN NoWallet ELSE GetWallet(party[1], party[2])
       IN /\ cmd' = [cmd EXCEPT ![p] = c]
          /\ snap' = [snap EXCEPT ![p] = w]
          /\ Finish(p, GetBalanceCheck(c, w))
  /\ UNCHANGED <<owners, wallets, txns, clock, snap2, found>>

\* --------------------------------------------------------------- set PIN
\* A set-PIN that also settles the pending withdrawals in the log: C18 depends
\* on the handlers never updating a row.
SetTransactionPinSettling(p) ==
  /\ pc[p] = "idle"
  /\ \E u \in UserIds, pin \in Pins :
       /\ cmd' = [cmd EXCEPT ![p] = [op |-> "set_pin", kind |-> "user", owner |-> u,
                                     transaction_pin |-> pin]]
       /\ snap' = [snap EXCEPT ![p] = GetWallet("user", u)]
  /\ txns' = [i \in 1..Len(txns) |->
               IF txns[i].status = "pending"
                 THEN [txns[i] EXCEPT !.status = "completed"] ELSE txns[i]]
  /\ Finish(p, "ok")
  /\ UNCHANGED <<owners, wallets, clock, snap2, found>>

\* SetTransactionPinHandler.handle: the wallet query, the assignment, the commit.
\* The UPDATE sets the one changed column of the row loaded.
SetTransactionPin(p) ==
  /\ pc[p] = "idle"
  /\ \E u \in UserIds, pin \in Pins :
       LET c == [op |-> "set_pin", kind |-> "user", owner |-> u, transaction_pin |-> pin]
           w == GetWallet("user", u)
       IN /\ cmd' = [cmd EXCEPT ![p] = c]
          /\ snap' = [snap EXCEPT ![p] = w]
          /\ IF w.id = NULL
               THEN /\ wallets' = wallets
                    /\ Finish(p, "User wallet not found")
               ELSE /\ wallets' = [wallets EXCEPT ![<<"user", w.id>>].transaction_pin = pin]
                    /\ Finish(p, "ok")
  /\ UNCHANGED <<owners, txns, clock, snap2, found>>

\* ------------------------------------------------------ transaction lookups
\* db.query(WalletTransaction).filter(WalletTransaction.id == transaction_id).first()
TxnById(transaction_id) ==
  SelectSeq(txns, LAMBDA t : t.id = transaction_id)

\* An ownership test by wallet id alone, whatever the table: C17 depends on the
\* test reading the column of the requester's type.
WalletOwnedAnyColumn(c, t) ==
  \E k \in DOMAIN wallets :
    /\ k[1] = c.kind /\ wallets[k].owner_id = c.owner
    /\ k[2] \in {t.user_wallet_id, t.vendor_wallet_id, t.rider_wallet_id}

\* GetWalletTransactionQueryHandler.handle, "Verify ownership": the branch of
\* owner_type is taken when the row's column of that type is set, and looks for
\* the wallet with that id and the owner id of the query.
WalletOwned(c, t) ==
  CASE c.kind = "user" /\ t.user_wallet_id # NULL ->
         \E k \in DOMAIN wallets :
           k = <<"user", t.user_wallet_id>> /\ wallets[k].owner_id = c.owner
    [] c.kind = "vendor" /\ t.vendor_wallet_id # NULL ->
         \E k \in DOMAIN wallets :
           k = <<"vendor", t.vendor_wallet_id>> /\ wallets[k].owner_id = c.owner
    [] c.kind = "rider" /\ t.rider_wallet_id # NULL ->
         \E k \in DOMAIN wallets :
           k = <<"rider", t.rider_wallet_id>> /\ wallets[k].owner_id = c.owner
    [] OTHER -> FALSE

GetTransactionCheck(c) ==
  IF TxnById(c.transaction_id) = <<>> THEN "Transaction not found"
  ELSE IF ~WalletOwned(c, Head(TxnById(c.transaction_id))) THEN "Access denied"
  ELSE "ok"

\* A single-transaction lookup: the row is returned when the checks pass.
GetTransaction(p) ==
  /\ pc[p] = "idle"
  /\ \E id \in TransactionIds, party \in WithdrawParties :
       LET c == [op |-> "get_transaction", transaction_id |-> id,
                 kind |-> party[1], owner |-> party[2]]
       IN /\ cmd' = [cmd EXCEPT ![p] = c]
          /\ found' = [found EXCEPT ![p] =
                         IF GetTransactionCheck(c) = "ok" THEN TxnById(id) ELSE <<>>]
          /\ Finish(p, GetTransactionCheck(c))
  /\ UNCHANGED <<owners, wallets, txns, clock, snap, snap2>>

\* The rows of wallet w of a kind, in insertion order.
RowsOfWallet(kind, w) ==
  SelectSeq(txns, LAMBDA t :
    CASE kind = "user" -> t.user_wallet_id = w.id
      [] kind = "vendor" -> t.vendor_wallet_id = w.id
      [] kind = "rider" -> t.rider_wallet_id = w.id
      [] OTHER -> FALSE)

\* order_by(created_at.desc()): every order of the rows in which created_at never
\* rises; rows inserted by one commit share their created_at.
NewestFirst(rows) ==
  LET n == Len(rows)
      perms == {f \in [1..n -> 1..n] : \A i, j \in 1..n : i # j => f[i] # f[j]}
  IN {[i \in 1..n |-> rows[f[i]]] : f \in
        {g \in perms : \A i, j \in 1..n :
           i < j => rows[g[i]].created_at >= rows[g[j]].created_at}}

\* .offset(offset).limit(limit)
Page(rows, offset, limit) ==
  SubSeq(rows, offset + 1, IF offset + limit < Len(rows) THEN offset + limit ELSE Len(rows))

GetTransactionsCheck(c, w) ==
  IF c.kind \notin Kinds THEN "Invalid wallet type"
  ELSE IF w.id = NULL THEN "wallet not found"
  ELSE "ok"

\* GetWalletTransactionsQueryHandler.handle: the wallet query, then one page of
\* the wallet's rows, newest first.
GetTransactions(p) ==
  /\ pc[p] = "idle"
  /\ \E party \in WithdrawParties, limit \in Limits, offset \in Offsets :
       LET c == [op |-> "get_transactions", kind |-> party[1], owner |-> party[2],
                 limit |-> limit, offset |-> offset]
           w == IF party[1] \notin Kinds THEN NoWallet ELSE GetWallet(party[1], party[2])
       IN /\ cmd' = [cmd EXCEPT ![p] = c]
          /\ snap' = [snap EXCEPT ![p] = w]
          /\ IF GetTransactionsCheck(c, w) = "ok"
               THEN \E rows \in NewestFirst(RowsOfWallet(party[1], w)) :
                      found' = [found EXCEPT ![p] = Page(rows, offset, limit)]
               ELSE found' = [found EXCEPT ![p] = <<>>]
          /\ Finish(p, GetTransactionsCheck(c, w))
  /\ UNCHANGED <<owners, wallets, txns, clock, snap2>>

\* ---------------------------------------------------------- registration
\* The primary key a table's sequence gives its next row.
NextId(rows, kind) ==
  LET ids == {k[2] : k \in {j \in DOMAIN rows : j[1] = kind}}
  IN IF ids = {} THEN 1 ELSE 1 + (CHOOSE i \in ids : \A j \in ids : j <= i)

RowsOf(rows, kind) == {k \in DOMAIN rows : k[1] = kind}

\* The unique constraints of an owner table on email and firebase_uid.
OwnerConflict(kind, c) ==
  \E k \in RowsOf(owners, kind) :
    owners[k].email = c.email \/ owners[k].firebase_uid = c.firebase_uid

\* db.add(owner); db.commit(); db.refresh(owner)
InsertOwner(kind, c) ==
  owners @@ (<<kind, NextId(owners, kind)>> :> Owner(c.email, c.firebase_uid))

\* The commit of create_<kind>_wallet without the unique constraint on the
\* owner column: C11 depends on that constraint.
CreateWalletOutcomeNoUnique(kind, owner_id) ==
  IF <<kind, owner_id>> \notin DOMAIN owners THEN "IntegrityError: foreign key violation"
  ELSE "ok"

\* The commit of create_<kind>_wallet: the owner column is a foreign key to the
\* owner table and unique.
CreateWalletOutcome(kind, owner_id) ==
  IF <<kind, owner_id>> \notin DOMAIN owners THEN "IntegrityError: foreign key violation"
  ELSE IF WalletsOf(wallets, kind, owner_id) # {} THEN "IntegrityError: unique violation"
  ELSE "ok"

\* create_<kind>_wallet: wallet = <Kind>Wallet(<kind>_id = owner_id); add; commit.
InsertWallet(kind, owner_id) ==
  IF CreateWalletOutcome(kind, owner_id) = "ok"
    THEN wallets @@ (<<kind, NextId(wallets, kind)>> :>
                       NewWallet(kind, NextId(wallets, kind), owner_id))
    ELSE wallets

\* create_user_wallet, create_vendor_wallet or create_rider_wallet called for an
\* owner id.
CreateWallet(p) ==
  /\ pc[p] = "idle"
  /\ \E kind \in Kinds, owner_id \in OwnerIds :
       /\ cmd' = [cmd EXCEPT ![p] = [NoCmd EXCEPT !.op = "create_wallet",
                                                  !.kind = kind, !.owner = owner_id]]
       /\ wallets' = InsertWallet(kind, owner_id)
       /\ Finish(p, CreateWalletOutcome(kind, owner_id))
  /\ UNCHANGED <<owners, txns, clock, snap, snap2, found>>

\* CreateUserHandler.handle, the checks before the user is added.
CreateUserCheck(c) ==
  IF c.firebase_uid = "" THEN "Firebase UID is required and cannot be empty"
  ELSE IF c.email = "" THEN "Email address is required"
  ELSE IF ~c.fields_ok THEN "Full name is required and cannot be empty"
  ELSE IF \E k \in RowsOf(owners, "user") : owners[k].email = c.email
    THEN "A user account with email already exists"
  ELSE IF \E k \in RowsOf(owners, "user") : owners[k].firebase_uid = c.firebase_uid
    THEN "This Firebase account is already linked to another user profile"
  ELSE "ok"

\* CreateVendorHandler.handle, the checks before the vendor is added; fields_ok
\* stands for the name, address, coordinates and vendor type.
CreateVendorCheck(c) ==
  IF c.firebase_uid = "" THEN "Firebase UID is required and cannot be empty"
  ELSE IF c.email = "" THEN "Email address is required for vendor registration"
  ELSE IF ~c.fields_ok THEN "Required vendor field is missing or invalid"
  ELSE IF \E k \in RowsOf(owners, "vendor") : owners[k].email = c.email
    THEN "A vendor account with email already exists"
  ELSE IF \E k \in RowsOf(owners, "vendor") : owners[k].firebase_uid = c.firebase_uid
    THEN "This Firebase account is already linked to another vendor profile"
  ELSE "ok"

\* CreateRiderHandler.handle makes no check: the commit raises when a unique
\* column is taken.
CreateRiderCheck(c) ==
  IF OwnerConflict("rider", c) THEN "IntegrityError: unique violation" ELSE "ok"

RegisterCheck(kind, c) ==
  CASE kind = "user" -> CreateUserCheck(c)
    [] kind = "vendor" -> CreateVendorCheck(c)
    [] OTHER -> CreateRiderCheck(c)

\* A registration as far as the owner's own commit; the owner's id is known
\* after it.
RegisterOwner(p, kind) ==
  /\ pc[p] = "idle"
  /\ Cardinality(DOMAIN owners) < MaxOwners
  /\ \E email \in Emails, uid \in FirebaseUids, fields_ok \in BOOLEAN :
       LET c == [op |-> "register", kind |-> kind, owner |-> 0, email |-> email,
                 firebase_uid |-> uid, fields_ok |-> fields_ok]
       IN IF RegisterCheck(kind, c) = "ok"
            THEN /\ owners' = InsertOwner(kind, c)
                 /\ cmd' = [cmd EXCEPT ![p] = [c EXCEPT !.owner = NextId(owners, kind)]]
                 /\ Goto(p, "create_wallet")
            ELSE /\ owners' = owners
                 /\ cmd' = [cmd EXCEPT ![p] = c]
                 /\ Finish(p, RegisterCheck(kind, c))
  /\ UNCHANGED <<wallets, txns, clock, snap, snap2, found>>

CreateUser(p) == RegisterOwner(p, "user")

CreateVendor(p) == RegisterOwner(p, "vendor")

CreateRider(p) == RegisterOwner(p, "rider")

\* The wallet step of a registration, after the owner is committed:
\* create_<kind>_wallet(db, owner.id).  Its commit is a second database
\* transaction, which the database may fail; the handler then rolls back what is
\* left of the session and raises, and the owner row stays.
RegisterWallet(p) ==
  /\ pc[p] = "create_wallet"
  /\ \E committed \in BOOLEAN :
       IF committed
         THEN /\ wallets' = InsertWallet(cmd[p].kind, cmd[p].owner)
              /\ Finish(p, CreateWalletOutcome(cmd[p].kind, cmd[p].owner))
         ELSE /\ wallets' = wallets
              /\ Finish(p, "OperationalError")
  /\ UNCHANGED <<owners, txns, clock, cmd, snap, snap2, found>>

\* ------------------------------------------------------- owner deletion
\* The ids delete requests carry.
DeleteIds == {0, 1, 2}

\* The table without the rows under keys.
Without(rows, keys) == [k \in DOMAIN rows \ keys |-> rows[k]]

\* The outcome of db.delete(owner); db.commit().  The flush de-associates every
\* related row whose relationship has no delete cascade, by an UPDATE that sets
\* its foreign key to NULL, before it deletes the owner.  The user and vendor
\* columns of orders, addresses and items (the dependents of an owner) and the
\* owner columns of the wallets are NOT NULL, so that UPDATE fails for a user or
\* vendor with dependents and for a vendor or rider with a wallet; orders.rider_id
\* is nullable, and User.wallet cascades the delete to the wallet instead.
DeleteOutcome(kind, id, dependents) ==
  IF kind = "user" /\ id <= 0 THEN "Invalid user ID"
  ELSE IF <<kind, id>> \notin DOMAIN owners THEN "not found"
  ELSE IF dependents /\ kind # "rider" THEN "IntegrityError: not-null violation"
  ELSE IF kind # "user" /\ WalletsOf(wallets, kind, id) # {}
    THEN "IntegrityError: not-null violation"
  ELSE "ok"

\* The log after the wallets under keys are deleted through the session:
\* <Kind>Wallet.transactions has no delete cascade and the wallet-id columns of
\* wallet_transactions are nullable, so the rows of a deleted wallet are kept
\* with the column set to NULL.
DeassociateTransactions(rows, keys) ==
  [i \in 1..Len(rows) |->
     [rows[i] EXCEPT
        !.user_wallet_id = IF <<"user", @>> \in keys THEN NULL ELSE @,
        !.vendor_wallet_id = IF <<"vendor", @>> \in keys THEN NULL ELSE @,
        !.rider_wallet_id = IF <<"rider", @>> \in keys THEN NULL ELSE @]]

\* DeleteUserHandler.handle, DeleteVendorHandler.handle, DeleteRiderHandler.handle:
\* the owner query, the delete and the commit; a failing flush is rolled back.
DeleteOwner(p, kind) ==
  /\ pc[p] = "idle"
  /\ \E id \in DeleteIds, dependents \in BOOLEAN :
       LET c == [NoCmd EXCEPT !.op = "delete", !.kind = kind, !.owner = id]
           cascaded == IF kind = "user" THEN WalletsOf(wallets, kind, id) ELSE {}
       IN /\ cmd' = [cmd EXCEPT ![p] = c]
          /\ IF DeleteOutcome(kind, id, dependents) = "ok"
               THEN /\ owners' = Without(owners, {<<kind, id>>})
                    /\ wallets' = Without(wallets, cascaded)
                    /\ txns' = DeassociateTransactions(txns, cascaded)
               ELSE UNCHANGED <<owners, wallets, txns>>
          /\ Finish(p, DeleteOutcome(kind, id, dependents))
  /\ UNCHANGED <<clock, snap, snap2, found>>

DeleteUser(p) == DeleteOwner(p, "user")

DeleteVendor(p) == DeleteOwner(p, "vendor")

DeleteRider(p) == DeleteOwner(p, "rider")

\* The response is sent and the worker takes the next request.
Return(p) ==
  /\ pc[p] = "done"
  /\ pc' = [pc EXCEPT ![p] = "idle"]
  /\ cmd' = [cmd EXCEPT ![p] = NoCmd]
  /\ snap' = [snap EXCEPT ![p] = NoWallet]
  /\ snap2' = [snap2 EXCEPT ![p] = NoWallet]
  /\ found' = [found EXCEPT ![p] = <<>>]
  /\ result' = [result EXCEPT ![p] = "none"]
  /\ UNCHANGED <<owners, wallets, txns, clock>>

\* ------------------------------------------------------------ behaviours
FlagPairs == {<<TRUE, FALSE>>, <<TRUE, TRUE>>, <<FALSE, FALSE>>, <<FALSE, TRUE>>}

\* Every wallet starts with balance 0 and an empty log; is_active and is_locked
\* are set outside the handlers and may have any value.
Init ==
  /\ owners = InitOwners
  /\ \E flags \in [DOMAIN InitWalletId -> FlagPairs] :
       wallets = [key \in {<<k[1], InitWalletId[k]>> : k \in DOMAIN InitWalletId} |->
                    LET k == CHOOSE o \in DOMAIN InitWalletId :
                               <<o[1], InitWalletId[o]>> = key
                    IN [NewWallet(k[1], key[2], k[2]) EXCEPT
                          !.is_active = flags[k][1], !.is_locked = flags[k][2]]]
  /\ txns = <<>>
  /\ clock = 0
  /\ pc = [p \in Procs |-> "idle"]
  /\ cmd = [p \in Procs |-> NoCmd]
  /\ snap = [p \in Procs |-> NoWallet]
  /\ snap2 = [p \in Procs |-> NoWallet]
  /\ found = [p \in Procs |-> <<>>]
  /\ result = [p \in Procs |-> "none"]

\* Requests handled one at a time, by one worker.
Worker == CHOOSE p \in Procs : TRUE

Next ==
  \/ LogHasRoom /\ FundRead(Worker)
  \/ LogHasRoomFor(1) /\ FundCommit(Worker)
  \/ LogHasRoom /\ WithdrawRead(Worker)
  \/ LogHasRoomFor(1) /\ WithdrawCommit(Worker)
  \/ LogHasRoom /\ PayRead(Worker)
  \/ LogHasRoomFor(1) /\ PayCommit(Worker)
  \/ LogHasRoom /\ TransferReadSender(Worker)
  \/ TransferReadRecipient(Worker)
  \/ LogHasRoomFor(2) /\ TransferCommit(Worker)
  \/ GetBalance(Worker)
  \/ Return(Worker)

Spec == Init /\ [][Next]_vars

\* Requests handled one at a time, with commits that may fail.
NextStorage ==
  \/ LogHasRoom /\ FundRead(Worker)
  \/ LogHasRoomFor(1) /\ FundCommit(Worker)
  \/ LogHasRoom /\ WithdrawRead(Worker)
  \/ LogHasRoomFor(1) /\ WithdrawCommit(Worker)
  \/ LogHasRoom /\ PayRead(Worker)
  \/ LogHasRoomFor(1) /\ PayCommit(Worker)
  \/ LogHasRoom /\ TransferReadSender(Worker)
  \/ TransferReadRecipient(Worker)
  \/ LogHasRoomFor(2) /\ TransferCommit(Worker)
  \/ CommitFails(Worker)
  \/ GetBalance(Worker)
  \/ Return(Worker)

SpecStorage == Init /\ [][NextStorage]_vars

\* Concurrent request workers, each in its own session.  The requests address
\* the open wallets of user 1 and vendor 1 and move positive amounts; requests
\* with other amounts are taken one at a time, under Spec.
ConcParties == {<<"user", 1>>, <<"vendor", 1>>}

ConcAmounts == {500, 1000}

ConcRequest(c) ==
  /\ <<c.kind, c.owner>> \in ConcParties
  /\ c.op = "transfer" => <<c.rkind, c.rowner>> \in ConcParties
  /\ c.op # "get_balance" => c.amount \in ConcAmounts
  /\ c.op \in {"fund", "withdraw", "transfer"} => c.amount > 0

InitConc ==
  /\ Init
  /\ \A k \in DOMAIN wallets : wallets[k].is_active /\ ~wallets[k].is_locked

NextConc ==
  \E p \in Procs :
    \/ LogHasRoom /\ FundRead(p) /\ ConcRequest(cmd'[p])
    \/ LogHasRoomFor(1) /\ FundCommit(p)
    \/ LogHasRoom /\ WithdrawRead(p) /\ ConcRequest(cmd'[p])
    \/ LogHasRoomFor(1) /\ WithdrawCommit(p)
    \/ LogHasRoom /\ PayRead(p) /\ ConcRequest(cmd'[p])
    \/ LogHasRoomFor(1) /\ PayCommit(p)
    \/ LogHasRoom /\ TransferReadSender(p) /\ ConcRequest(cmd'[p])
    \/ TransferReadRecipient(p)
    \/ LogHasRoomFor(2) /\ TransferCommit(p)
    \/ GetBalance(p) /\ ConcRequest(cmd'[p])
    \/ Return(p)

SpecConc == InitConc /\ [][NextConc]_vars

\* Every engine operation, one request at a time, on the open wallets of user 1,
\* vendor 1 and rider 1.  Money moves in amounts of 500 and 1000.
EngineParties == {<<"user", 1>>, <<"vendor", 1>>, <<"rider", 1>>}

EngineAmounts == {500, 1000}

EngineRequest(c) ==
  c.op \in {"fund", "withdraw", "pay", "transfer"} =>
    /\ c.amount \in EngineAmounts
    /\ <<c.kind, c.owner>> \in EngineParties
    /\ c.op = "transfer" => <<c.rkind, c.rowner>> \in EngineParties

\* A request that fails its checks is always taken; one that goes on to a commit
\* is taken while the log explored has room.
EngineTakes(p) == pc'[p] = "done" \/ Len(txns) < MaxEngineTxns

EngineLogFits == Len(txns') <= MaxEngineTxns

NextEngine ==
  \/ FundRead(Worker) /\ EngineRequest(cmd'[Worker]) /\ EngineTakes(Worker)
  \/ FundCommit(Worker) /\ EngineLogFits
  \/ WithdrawRead(Worker) /\ EngineRequest(cmd'[Worker]) /\ EngineTakes(Worker)
  \/ WithdrawCommit(Worker) /\ EngineLogFits
  \/ PayRead(Worker) /\ EngineRequest(cmd'[Worker]) /\ EngineTakes(Worker)
  \/ PayCommit(Worker) /\ EngineLogFits
  \/ TransferReadSender(Worker) /\ EngineRequest(cmd'[Worker]) /\ EngineTakes(Worker)
  \/ TransferReadRecipient(Worker)
  \/ TransferCommit(Worker) /\ EngineLogFits
  \/ SetTransactionPin(Worker)
  \/ GetBalance(Worker)
  \/ GetTransaction(Worker)
  \/ GetTransactions(Worker)
  \/ Return(Worker)

SpecEngine == InitConc /\ [][NextEngine]_vars

\* Owner deletions between the money operations on the open wallets of user 1,
\* vendor 1 and rider 1, one request at a time.
NextDelete ==
  \/ LogHasRoom /\ FundRead(Worker) /\ EngineRequest(cmd'[Worker])
  \/ LogHasRoomFor(1) /\ FundCommit(Worker)
  \/ LogHasRoom /\ TransferReadSender(Worker) /\ EngineRequest(cmd'[Worker])
  \/ TransferReadRecipient(Worker)
  \/ LogHasRoomFor(2) /\ TransferCommit(Worker)
  \/ DeleteUser(Worker)
  \/ DeleteVendor(Worker)
  \/ DeleteRider(Worker)
  \/ Return(Worker)

SpecDelete == InitConc /\ [][NextDelete]_vars

\* Registration from empty tables, wallet creation and funding, one request at
\* a time.
InitReg ==
  /\ owners = [k \in {} |-> Owner("", "")]
  /\ wallets = [k \in {} |-> NoWallet]
  /\ txns = <<>>
  /\ clock = 0
  /\ pc = [p \in Procs |-> "idle"]
  /\ cmd = [p \in Procs |-> NoCmd]
  /\ snap = [p \in Procs |-> NoWallet]
  /\ snap2 = [p \in Procs |-> NoWallet]
  /\ found = [p \in Procs |-> <<>>]
  /\ result = [p \in Procs |-> "none"]

\* The fund requests taken between registrations.
RegRequest(c) == c.owner = 1 /\ c.amount = 500

NextReg ==
  \/ CreateUser(Worker)
  \/ CreateVendor(Worker)
  \/ CreateRider(Worker)
  \/ RegisterWallet(Worker)
  \/ CreateWallet(Worker)
  \/ LogHasRoom /\ FundRead(Worker) /\ RegRequest(cmd'[Worker])
  \/ LogHasRoomFor(1) /\ FundCommit(Worker)
  \/ Return(Worker)

SpecReg == InitReg /\ [][NextReg]_vars

\* ------------------------------------------------------------ properties
\* The row t belongs to the wallet stored under key k.
RefersTo(t, k) ==
  CASE k[1] = "user" -> t.user_wallet_id = wallets[k].id
    [] k[1] = "vendor" -> t.vendor_wallet_id = wallets[k].id
    [] k[1] = "rider" -> t.rider_wallet_id = wallets[k].id
    [] OTHER -> FALSE

\* The log of one wallet, oldest row first.
LogOf(k) == SelectSeq(txns, LAMBDA t : RefersTo(t, k))

RECURSIVE SumAmount(_)
SumAmount(rows) ==
  IF rows = <<>> THEN 0 ELSE Head(rows).amount + SumAmount(Tail(rows))

\* The wallet a command debits or credits first: its target, or its sender.
TargetKey(c) == <<c.kind, GetWallet(c.kind, c.owner).id>>
RecipientKey(c) == <<c.rkind, GetWallet(c.rkind, c.rowner).id>>

DebitOps == {"withdraw", "pay", "transfer"}

Succeeded(p) == pc[p] = "done" /\ result[p] = "ok"

\* The wallets a successful command writes, the balance the handler loaded for
\* each, and the change the command is meant to make to each.
Touched(c) ==
  CASE c.op = "transfer" -> {TargetKey(c), RecipientKey(c)}
    [] c.op \in {"fund", "withdraw", "pay"} -> {TargetKey(c)}
    [] OTHER -> {}

Observed(p, k) == IF k = TargetKey(cmd[p]) THEN snap[p].balance ELSE snap2[p].balance

Delta(c, k) ==
  CASE c.op = "fund" -> c.amount
    [] c.op \in {"withdraw", "pay"} -> 0 - c.amount
    [] c.op = "transfer" ->
         (IF k = TargetKey(c) THEN 0 - c.amount ELSE 0)
         + (IF k = RecipientKey(c) THEN c.amount ELSE 0)
    [] OTHER -> 0

\* C1.  Reconciliation: with requests handled one at a time from balance 0 and
\* an empty log, every wallet's balance equals the sum of the stored amount
\* fields of the rows of its log.
C1_Reconciliation ==
  \A k \in DOMAIN wallets : wallets[k].balance = SumAmount(LogOf(k))

\* C2.  No negative balance: in every reachable state, under every interleaving
\* of the reads and commits of concurrent handlers, every stored balance is >= 0.
C2_NoNegativeBalance ==
  \A k \in DOMAIN wallets : wallets[k].balance >= 0

\* Two debits of one wallet have both been committed from the same loaded
\* balance, which their amounts together exceed.
DebitRow(t) == t.reference_type \in {"withdrawal", "order", "transfer_out"}

DebitOf(t) == IF t.reference_type = "transfer_out" THEN 0 - t.amount ELSE t.amount

SameWallet(t, u) ==
  /\ t.user_wallet_id = u.user_wallet_id
  /\ t.vendor_wallet_id = u.vendor_wallet_id
  /\ t.rider_wallet_id = u.rider_wallet_id

C2_Witness ==
  \E i, j \in 1..Len(txns) :
    /\ i < j
    /\ DebitRow(txns[i]) /\ DebitRow(txns[j]) /\ SameWallet(txns[i], txns[j])
    /\ txns[i].balance_before = txns[j].balance_before
    /\ DebitOf(txns[i]) > 0 /\ DebitOf(txns[j]) > 0
    /\ DebitOf(txns[i]) + DebitOf(txns[j]) > txns[i].balance_before

\* Two workers have both succeeded with a debit of the same wallet, each having
\* loaded the balance B, with amounts that each fit B and together exceed it.
DoubleSpent(p, q) ==
  /\ p # q
  /\ Succeeded(p) /\ Succeeded(q)
  /\ cmd[p].op \in DebitOps /\ cmd[q].op \in DebitOps
  /\ TargetKey(cmd[p]) = TargetKey(cmd[q])
  /\ snap[p].balance = snap[q].balance
  /\ cmd[p].amount > 0 /\ cmd[q].amount > 0
  /\ cmd[p].amount <= snap[p].balance /\ cmd[q].amount <= snap[q].balance
  /\ cmd[p].amount + cmd[q].amount > snap[p].balance

\* C3.  No double-spend: of two concurrent debits of one wallet whose amounts
\* each fit the balance and together exceed it, never both succeed.
C3_NoDoubleSpend ==
  \A p, q \in Procs : ~DoubleSpent(p, q)

\* C4.  No lost updates: when two concurrent operations on one wallet both
\* succeed, having started from the balance B, the wallet ends with B plus the
\* signed change of each.
C4_NoLostUpdate ==
  \A p, q \in Procs :
    \A k \in DOMAIN wallets :
      ( /\ p # q
        /\ Succeeded(p) /\ Succeeded(q)
        /\ k \in Touched(cmd[p]) /\ k \in Touched(cmd[q])
        /\ Observed(p, k) = Observed(q, k) )
      => wallets[k].balance = Observed(p, k) + Delta(cmd[p], k) + Delta(cmd[q], k)

\* A request of worker p ends with success in this step.
Completes(p) == pc[p] # "done" /\ pc'[p] = "done" /\ result'[p] = "ok"

RECURSIVE SumBalance(_, _)
SumBalance(ws, keys) ==
  IF keys = {} THEN 0
  ELSE LET k == CHOOSE x \in keys : TRUE
       IN ws[k].balance + SumBalance(ws, keys \ {k})

TotalBalance == SumBalance(wallets, DOMAIN wallets)

\* Exactly the wallet-id column of kind k[1] is set, to the id of wallet k.
RefersOnlyTo(t, k) ==
  /\ RefersTo(t, k)
  /\ k[1] # "user" => t.user_wallet_id = NULL
  /\ k[1] # "vendor" => t.vendor_wallet_id = NULL
  /\ k[1] # "rider" => t.rider_wallet_id = NULL

\* C5.  Transfer effect: a successful transfer of A from wallet X to a different
\* wallet Y appends exactly two rows, -A on X (transfer_out) and +A on Y
\* (transfer_in), each with the wallet's old balance as balance_before and its
\* new one as balance_after, takes exactly A from X and adds exactly A to Y.
C5_TransferEffect ==
  [][\A p \in Procs :
       (Completes(p) /\ cmd[p].op = "transfer"
          /\ TargetKey(cmd[p]) # RecipientKey(cmd[p]))
       => LET X == TargetKey(cmd[p])
              Y == RecipientKey(cmd[p])
              A == cmd[p].amount
              n == Len(txns)
          IN /\ Len(txns') = n + 2
             /\ SubSeq(txns', 1, n) = txns
             /\ RefersOnlyTo(txns'[n + 1], X)
             /\ txns'[n + 1].amount = 0 - A
             /\ txns'[n + 1].balance_before = wallets[X].balance
             /\ txns'[n + 1].balance_after = wallets[X].balance - A
             /\ txns'[n + 1].reference_type = "transfer_out"
             /\ RefersOnlyTo(txns'[n + 2], Y)
             /\ txns'[n + 2].amount = A
             /\ txns'[n + 2].balance_before = wallets[Y].balance
             /\ txns'[n + 2].balance_after = wallets[Y].balance + A
             /\ txns'[n + 2].reference_type = "transfer_in"
             /\ wallets'[X].balance = wallets[X].balance - A
             /\ wallets'[Y].balance = wallets[Y].balance + A
    ]_vars

C5_Witness ==
  \E p \in Procs :
    /\ Succeeded(p) /\ cmd[p].op = "transfer"
    /\ TargetKey(cmd[p]) # RecipientKey(cmd[p])
    /\ wallets[RecipientKey(cmd[p])].balance = snap2[p].balance + cmd[p].amount

\* C6.  Money conservation under transfer: every successful transfer, a transfer
\* of a wallet to itself included, leaves the sum of all balances unchanged.
C6_TransferConservesMoney ==
  [][\A p \in Procs :
       (Completes(p) /\ cmd[p].op = "transfer") => TotalBalance' = TotalBalance
    ]_vars

\* C7.  Failure leaves state unchanged: only a step that completes a request
\* with success changes a wallet row or the log, so a request that ends with a
\* validation failure has appended nothing and changed no wallet.
C7_FailureChangesNothing ==
  [][(wallets' # wallets \/ txns' # txns) => \E p \in Procs : Completes(p)]_vars

C7_Witness ==
  \E p \in Procs :
    /\ pc[p] = "done"
    /\ result[p] = "Insufficient wallet balance"
    /\ snap[p].balance > 0
    /\ txns # <<>>

\* C8.  A transfer is never partially visible: in every state a reader can see,
\* the debit row of a transfer is followed by its credit row, both appear in the
\* same step, and that step also stores the credited balance of the recipient
\* and (for another wallet) the debited balance of the sender; no balance
\* changes without its rows.
C8_TransferNeverPartial ==
  [][LET n == Len(txns)
     IN /\ (Len(txns') > n /\ txns'[n + 1].reference_type = "transfer_out")
             => /\ Len(txns') = n + 2
                /\ txns'[n + 2].reference_type = "transfer_in"
                /\ \A k \in DOMAIN wallets :
                     /\ RefersTo(txns'[n + 2], k)
                          => wallets'[k].balance = txns'[n + 2].balance_after
                     /\ (RefersTo(txns'[n + 1], k) /\ ~RefersTo(txns'[n + 2], k))
                          => wallets'[k].balance = txns'[n + 1].balance_after
        /\ Len(txns') > n => txns'[n + 1].reference_type # "transfer_in"
        /\ (\E k \in DOMAIN wallets : wallets'[k].balance # wallets[k].balance)
             => Len(txns') > n
    ]_vars

\* A balance query made while the transfer's worker has not yet answered sees
\* the recipient credited.
C8_Witness ==
  \E p, q \in Procs :
    /\ p # q
    /\ Succeeded(p) /\ cmd[p].op = "transfer"
    /\ TargetKey(cmd[p]) # RecipientKey(cmd[p])
    /\ Succeeded(q) /\ cmd[q].op = "get_balance"
    /\ TargetKey(cmd[q]) = RecipientKey(cmd[p])
    /\ snap[q].balance = snap2[p].balance + cmd[p].amount

\* The request of worker p has ended and its target (or sender) wallet is
\* locked and active.
OnLockedWallet(p) ==
  /\ pc[p] = "done"
  /\ TargetKey(cmd[p]) \in DOMAIN wallets
  /\ wallets[TargetKey(cmd[p])].is_locked
  /\ wallets[TargetKey(cmd[p])].is_active

ReturnsStoredBalance(p) ==
  result[p] = "ok" /\ snap[p].balance = wallets[TargetKey(cmd[p])].balance

C10_LockedOrInactiveFrozen ==
  [][\A k \in DOMAIN wallets :
       (wallets[k].is_locked \/ ~wallets[k].is_active)
       => /\ wallets'[k].balance = wallets[k].balance
          /\ LogOf(k)' = LogOf(k)
    ]_vars

\* No two rows of a wallet table carry the same owner id.
UniqueWalletOwner ==
  \A j, k \in DOMAIN wallets :
    (j[1] = k[1] /\ wallets[j].owner_id = wallets[k].owner_id) => j = k

\* C11.  At most one wallet per owner: creating a wallet for a (kind, owner id)
\* that already has one fails with the unique-constraint error, leaves every
\* wallet row (the existing wallet's balance included) as it was and adds no
\* row; and in every reachable state no two wallets of a kind share an owner id.
C11_OneWalletPerOwner ==
  [][/\ \A p \in Procs :
          ( /\ pc[p] = "idle" /\ pc'[p] = "done" /\ cmd'[p].op = "create_wallet"
            /\ WalletsOf(wallets, cmd'[p].kind, cmd'[p].owner) # {} )
          => /\ result'[p] = "IntegrityError: unique violation"
             /\ wallets' = wallets
      /\ UniqueWalletOwner'
    ]_vars

C11_Witness ==
  \E p \in Procs :
    /\ pc[p] = "done" /\ cmd[p].op = "create_wallet"
    /\ result[p] = "IntegrityError: unique violation"
    /\ GetWallet(cmd[p].kind, cmd[p].owner).balance > 0

\* C12.  Every registered owner has exactly one wallet: whenever no registration
\* is between its owner commit and its wallet step, each owner row has exactly
\* one wallet of its kind.
C12_EveryOwnerHasOneWallet ==
  (\A p \in Procs : pc[p] # "create_wallet")
  => \A k \in DOMAIN owners : Cardinality(WalletsOf(wallets, k[1], k[2])) = 1

\* Worker p takes a request of operation op in this step.
Takes(p, op) == pc[p] = "idle" /\ pc'[p] # "idle" /\ cmd'[p].op = op

\* The wallet exists, is active and is not locked.
Open(w) == w.id # NULL /\ w.is_active /\ ~w.is_locked

\* This step appends exactly one row, for wallet k, of the given type, status
\* and reference type, with the stored balance of k as balance_before and
\* after as balance_after, and stores after as the balance of k.
AppendsOne(k, type, status, reftype, after) ==
  /\ Len(txns') = Len(txns) + 1
  /\ SubSeq(txns', 1, Len(txns)) = txns
  /\ LET t == txns'[Len(txns')]
     IN /\ RefersOnlyTo(t, k)
        /\ t.transaction_type = type /\ t.status = status
        /\ t.reference_type = reftype
        /\ t.balance_before = wallets[k].balance
        /\ t.balance_after = after
  /\ wallets'[k].balance = after

\* C13.  Fund effect: a fund with amount > 0 on an existing, active, unlocked
\* wallet is accepted, and its commit adds exactly amount to the balance and
\* appends exactly one row: deposit, completed, reference_type funding,
\* balance_before the balance before and balance_after = balance_before + amount.
C13_FundEffect ==
  [][\A p \in Procs :
       /\ ( /\ Takes(p, "fund") /\ cmd'[p].amount > 0
            /\ Open(GetWallet("user", cmd'[p].owner)) )
          => pc'[p] = "fund_commit"
       /\ (pc[p] = "fund_commit" /\ pc'[p] # pc[p])
          => /\ Completes(p)
             /\ AppendsOne(TargetKey(cmd[p]), "deposit", "completed", "funding",
                           wallets[TargetKey(cmd[p])].balance + cmd[p].amount)
             /\ txns'[Len(txns')].amount = cmd[p].amount
    ]_vars

C13_Witness ==
  \E p \in Procs :
    /\ Succeeded(p) /\ cmd[p].op = "fund" /\ snap[p].balance > 0
    /\ wallets[TargetKey(cmd[p])].balance = snap[p].balance + cmd[p].amount

\* C14.  Withdraw effect: a withdraw with 0 < amount <= balance (and amount >=
\* minimum_withdrawal on a vendor or rider wallet) on an active, unlocked wallet
\* is accepted, and its commit takes exactly amount from the balance, down to 0
\* when amount = balance, and appends exactly one row: withdrawal, pending,
\* balance_before the old balance, balance_after = balance_before - amount.
C14_WithdrawEffect ==
  [][\A p \in Procs :
       /\ ( /\ Takes(p, "withdraw") /\ cmd'[p].kind \in Kinds
            /\ Open(GetWallet(cmd'[p].kind, cmd'[p].owner))
            /\ 0 < cmd'[p].amount
            /\ cmd'[p].amount <= GetWallet(cmd'[p].kind, cmd'[p].owner).balance
            /\ cmd'[p].kind \in {"vendor", "rider"} =>
                 cmd'[p].amount >=
                   GetWallet(cmd'[p].kind, cmd'[p].owner).minimum_withdrawal )
          => pc'[p] = "withdraw_commit"
       /\ (pc[p] = "withdraw_commit" /\ pc'[p] # pc[p])
          => /\ Completes(p)
             /\ AppendsOne(TargetKey(cmd[p]), "withdrawal", "pending", "withdrawal",
                           wallets[TargetKey(cmd[p])].balance - cmd[p].amount)
    ]_vars

C14_Witness ==
  \E p \in Procs :
    /\ Succeeded(p) /\ cmd[p].op = "withdraw" /\ cmd[p].kind \in {"vendor", "rider"}
    /\ cmd[p].amount = snap[p].balance
    /\ wallets[TargetKey(cmd[p])].balance = 0

\* C15.  Minimum withdrawal: a withdraw from a vendor or rider wallet with
\* 0 < amount < the wallet's minimum_withdrawal fails with the minimum-withdrawal
\* error, also when the balance covers the amount, and changes no wallet and no
\* row; a withdraw from an open user wallet has no minimum: it is accepted for
\* every 0 < amount <= balance and its commit succeeds.
C15_MinimumWithdrawal ==
  [][\A p \in Procs :
       /\ ( /\ Takes(p, "withdraw") /\ cmd'[p].kind \in {"vendor", "rider"}
            /\ GetWallet(cmd'[p].kind, cmd'[p].owner).id # NULL
            /\ 0 < cmd'[p].amount
            /\ cmd'[p].amount <
                 GetWallet(cmd'[p].kind, cmd'[p].owner).minimum_withdrawal )
          => /\ pc'[p] = "done" /\ result'[p] = "Minimum withdrawal amount"
             /\ wallets' = wallets /\ txns' = txns
       /\ ( /\ Takes(p, "withdraw") /\ cmd'[p].kind = "user"
            /\ Open(GetWallet("user", cmd'[p].owner))
            /\ 0 < cmd'[p].amount
            /\ cmd'[p].amount <= GetWallet("user", cmd'[p].owner).balance )
          => pc'[p] = "withdraw_commit"
       /\ (pc[p] = "withdraw_commit" /\ pc'[p] # pc[p]) => Completes(p)
    ]_vars

C15_Witness ==
  \E p \in Procs :
    /\ pc[p] = "done" /\ cmd[p].op = "withdraw" /\ cmd[p].kind = "vendor"
    /\ result[p] = "Minimum withdrawal amount"
    /\ snap[p].balance >= cmd[p].amount

\* C16.  Pay effect: a pay with amount <= balance on an open user wallet is
\* accepted, and its commit takes exactly amount from that wallet and appends
\* exactly one row: payment, completed, reference_type order, reference_id the
\* order id; with amount > balance it fails with the insufficient-balance error
\* and changes no wallet and no row; no step of a pay changes a vendor or rider
\* wallet.
C16_PayEffect ==
  [][\A p \in Procs :
       /\ (Takes(p, "pay") /\ Open(GetWallet("user", cmd'[p].owner)))
          => IF cmd'[p].amount <= GetWallet("user", cmd'[p].owner).balance
               THEN pc'[p] = "pay_commit"
               ELSE /\ pc'[p] = "done"
                    /\ result'[p] = "Insufficient wallet balance"
                    /\ wallets' = wallets /\ txns' = txns
       /\ (pc[p] = "pay_commit" /\ pc'[p] # pc[p])
          => /\ Completes(p)
             /\ AppendsOne(TargetKey(cmd[p]), "payment", "completed", "order",
                           wallets[TargetKey(cmd[p])].balance - cmd[p].amount)
             /\ txns'[Len(txns')].reference_id = cmd[p].order_id
       /\ (cmd'[p].op = "pay" /\ pc'[p] # pc[p])
          => \A k \in DOMAIN wallets : k[1] # "user" => wallets'[k] = wallets[k]
    ]_vars

C16_Witness ==
  \E p \in Procs :
    /\ Succeeded(p) /\ cmd[p].op = "pay" /\ cmd[p].amount > 0
    /\ wallets[TargetKey(cmd[p])].balance = snap[p].balance - cmd[p].amount
    /\ wallets[TargetKey(cmd[p])].balance > 0

\* The wallet a row references: the row's column of the wallet's kind holds the
\* wallet's id.
OwnsReferenced(kind, owner, t) ==
  \E k \in DOMAIN wallets :
    k[1] = kind /\ wallets[k].owner_id = owner /\ RefersTo(t, k)

\* C17.  Ownership-scoped lookup: get_transaction of an existing transaction
\* returns the row exactly when the wallet the row references is of the
\* requester's kind and owned by the requester's id; every other requester gets
\* "Access denied" and no row.
C17_OwnershipScopedLookup ==
  \A p \in Procs :
    ( /\ pc[p] = "done" /\ cmd[p].op = "get_transaction"
      /\ TxnById(cmd[p].transaction_id) # <<>> )
    => IF OwnsReferenced(cmd[p].kind, cmd[p].owner,
                         Head(TxnById(cmd[p].transaction_id)))
         THEN result[p] = "ok" /\ found[p] = TxnById(cmd[p].transaction_id)
         ELSE result[p] = "Access denied" /\ found[p] = <<>>

\* User 1 asks for a row of the rider wallet whose id equals the id of user 1's
\* own wallet, and is denied.
C17_Witness ==
  \E p \in Procs :
    /\ pc[p] = "done" /\ cmd[p].op = "get_transaction"
    /\ result[p] = "Access denied"
    /\ cmd[p].kind = "user" /\ cmd[p].owner = 1
    /\ TxnById(cmd[p].transaction_id) # <<>>
    /\ Head(TxnById(cmd[p].transaction_id)).rider_wallet_id
         = GetWallet("user", 1).id

\* C18.  Append-only log: under fund, withdraw, pay, transfer, set-PIN and the
\* lookups no step removes a row or changes a field of a row; a withdrawal
\* recorded as pending stays pending.
C18_AppendOnlyLog ==
  [][/\ Len(txns') >= Len(txns)
     /\ SubSeq(txns', 1, Len(txns)) = txns
    ]_vars

\* A PIN has been set while an older pending withdrawal is in the log.
C18_Witness ==
  \E p \in Procs :
    /\ Succeeded(p) /\ cmd[p].op = "set_pin"
    /\ \E i \in 1..Len(txns) : txns[i].status = "pending"

\* The number of wallet-id columns of a row that are set.
SetColumns(t) ==
  Cardinality({n \in {"user", "vendor", "rider"} :
    CASE n = "user" -> t.user_wallet_id # NULL
      [] n = "vendor" -> t.vendor_wallet_id # NULL
      [] OTHER -> t.rider_wallet_id # NULL})

\* C19.  Exactly one wallet reference: every row a commit appends has exactly one
\* of user_wallet_id, vendor_wallet_id, rider_wallet_id set, and it is the id of
\* the wallet the row's snapshots were taken from: the command's wallet (the
\* recipient's for a transfer_in row), whose balance before the commit is the
\* row's balance_before.
C19_ExactlyOneWalletReference ==
  [][\A p \in Procs :
       Completes(p) =>
         \A i \in (Len(txns) + 1)..Len(txns') :
           LET t == txns'[i]
               k == IF t.reference_type = "transfer_in"
                      THEN RecipientKey(cmd[p]) ELSE TargetKey(cmd[p])
           IN /\ SetColumns(t) = 1
              /\ k \in DOMAIN wallets
              /\ RefersOnlyTo(t, k)
              /\ t.balance_before = wallets[k].balance
    ]_vars

C19_Witness ==
  \E i \in 1..Len(txns) :
    /\ txns[i].reference_type = "transfer_in"
    /\ txns[i].rider_wallet_id # NULL
    /\ txns[i].user_wallet_id = NULL /\ txns[i].vendor_wallet_id = NULL

\* C20.  Balance-snapshot chain: with requests handled one at a time, the rows
\* of each wallet in creation order form a chain from balance 0 to the wallet's
\* current balance: the first balance_before is 0, each later balance_before is
\* the balance_after of the row before it, and the last balance_after is the
\* balance.
C20_SnapshotChain ==
  \A k \in DOMAIN wallets :
    LET rows == LogOf(k)
    IN IF rows = <<>> THEN wallets[k].balance = 0
       ELSE /\ rows[1].balance_before = 0
            /\ \A i \in 1..(Len(rows) - 1) :
                 rows[i + 1].balance_before = rows[i].balance_after
            /\ rows[Len(rows)].balance_after = wallets[k].balance

\* The rows this step appends that belong to wallet k.
NewRowsOf(k) ==
  {i \in (Len(txns) + 1)..Len(txns') : RefersTo(txns'[i], k)}

\* C21.  Atomic commit on storage failure: when the commit of a fund, withdraw,
\* pay or transfer fails, no wallet row and no row of the log changes; and in
\* every step a balance changes only together with an appended row of that
\* wallet, and every appended row comes with its wallet's balance stored as the
\* balance_after of the wallet's last appended row.
C21_AtomicCommit ==
  [][/\ \A p \in Procs :
          (pc[p] \in CommitLabels /\ pc'[p] = "done" /\ result'[p] # "ok")
          => wallets' = wallets /\ txns' = txns
     /\ \A k \in DOMAIN wallets :
          /\ wallets'[k].balance # wallets[k].balance => NewRowsOf(k) # {}
          /\ NewRowsOf(k) # {} =>
               LET last == CHOOSE i \in NewRowsOf(k) : \A j \in NewRowsOf(k) : j <= i
               IN /\ wallets'[k].balance = txns'[last].balance_after
                  /\ wallets'[k].last_transaction_at = clock'
     /\ \A i \in (Len(txns) + 1)..Len(txns') :
          \E k \in DOMAIN wallets : RefersTo(txns'[i], k)
    ]_vars

\* The commit of a transfer between two open wallets, which the sender's balance
\* covers, has failed after an earlier commit succeeded.
C21_Witness ==
  \E p \in Procs :
    /\ pc[p] = "done" /\ result[p] = "OperationalError"
    /\ cmd[p].op = "transfer" /\ TargetKey(cmd[p]) # RecipientKey(cmd[p])
    /\ snap[p].balance >= cmd[p].amount
    /\ wallets[TargetKey(cmd[p])].balance = snap[p].balance
    /\ wallets[RecipientKey(cmd[p])].balance = snap2[p].balance
    /\ txns # <<>>

LookupOps == {"get_balance", "get_transactions", "get_transaction"}

\* C22.  Lookup is read-only: a step that handles a get_balance, a
\* list-transactions or a get_transaction request, to success or to an error,
\* leaves every wallet row, the whole log and every owner row unchanged.
C22_LookupReadOnly ==
  [][\A p \in Procs :
       (pc'[p] # pc[p] /\ pc'[p] # "idle" /\ cmd'[p].op \in LookupOps)
       => wallets' = wallets /\ txns' = txns /\ owners' = owners
    ]_vars

\* A balance query has succeeded on a wallet that has been funded and used.
C22_Witness ==
  \E p \in Procs :
    /\ Succeeded(p) /\ cmd[p].op = "get_balance"
    /\ snap[p].balance > 0 /\ snap[p].last_transaction_at # NULL
    /\ wallets[TargetKey(cmd[p])] = snap[p]
    /\ Len(txns) >= 2

\* A wallet's rows in descending creation order: the row inserted last first.
Descending(rows) == [i \in 1..Len(rows) |-> rows[Len(rows) + 1 - i]]

\* C23.  Paginated history: a successful list-transactions query for (kind,
\* owner, offset, limit) returns the slice [offset, offset + limit) of the rows of
\* that owner's wallet in descending creation order (so only rows of that
\* wallet, newest first, and pages at offsets 0, limit, 2*limit, ... taken with no
\* mutation in between hold every row exactly once).
C23_PaginatedHistory ==
  \A p \in Procs :
    (Succeeded(p) /\ cmd[p].op = "get_transactions")
    => found[p] = Page(Descending(RowsOfWallet(cmd[p].kind, snap[p])),
                       cmd[p].offset, cmd[p].limit)

\* C24.  Pay never credits: for every amount a pay is accepted with, zero and
\* negative amounts included, the customer wallet's balance after the pay is at
\* most its balance before.
C24_PayNeverCredits ==
  [][\A p \in Procs :
       (Completes(p) /\ cmd[p].op = "pay")
       => wallets'[TargetKey(cmd[p])].balance <= wallets[TargetKey(cmd[p])].balance
    ]_vars

\* The wallet row, or the wallet table, as it is with no PIN stored.
NoPin(w) == [w EXCEPT !.transaction_pin = NULL]

NoPins(ws) == [k \in DOMAIN ws |-> NoPin(ws[k])]

\* Worker p goes on to label, or ends with the error.
StepsTo(p, outcome, label) ==
  IF outcome = "ok" THEN pc'[p] = label /\ result'[p] = result[p]
  ELSE pc'[p] = "done" /\ result'[p] = outcome

\* C25.  Transfer ignores the transaction PIN: every step of a transfer does what
\* the same command does on the state that differs only in having no PIN
\* stored: the same error or the same continuation at each check, the same rows
\* appended and the same wallet rows written; and it leaves every stored PIN as
\* it is.  So two states that differ only in the sender's PIN give one outcome.
C25_TransferIgnoresPin ==
  [][\A p \in Procs :
       /\ Takes(p, "transfer")
          => StepsTo(p, TransferSenderCheck(cmd'[p], NoPin(snap'[p])), "transfer_read2")
       /\ (pc[p] = "transfer_read2" /\ pc'[p] # pc[p])
          => StepsTo(p, TransferCheck(cmd[p], NoPin(snap[p]), NoPin(snap2'[p])),
                     "transfer_commit")
       /\ (pc[p] = "transfer_commit" /\ pc'[p] # pc[p])
          => /\ Completes(p)
             /\ txns' = txns \o TransferTxns(Len(txns), cmd[p], NoPin(snap[p]),
                                              NoPin(snap2[p]))
             /\ NoPins(wallets')
                  = TransferWrite(NoPins(wallets), cmd[p], NoPin(snap[p]), NoPin(snap2[p]),
                                  snap[p].balance - cmd[p].amount,
                                  snap2[p].balance + cmd[p].amount, clock')
             /\ \A k \in DOMAIN wallets :
                  wallets'[k].transaction_pin = wallets[k].transaction_pin
    ]_vars

\* A transfer has succeeded from a wallet whose PIN is set.
C25_Witness ==
  \E p \in Procs :
    /\ Succeeded(p) /\ cmd[p].op = "transfer"
    /\ snap[p].transaction_pin # NULL
    /\ wallets[TargetKey(cmd[p])].transaction_pin = snap[p].transaction_pin
    /\ TargetKey(cmd[p]) # RecipientKey(cmd[p])
    /\ wallets[TargetKey(cmd[p])].balance = snap[p].balance - cmd[p].amount

\* The wallet row with the two columns a money operation writes blanked.
Frame(w) == [w EXCEPT !.balance = 0, !.last_transaction_at = NULL]

FirstFailing(c) ==
  LET s == GetWallet(c.kind, c.owner)
      r == GetWallet(c.rkind, c.rowner)
  IN CASE c.amount <= 0 -> "Amount must be greater than zero"
       [] c.amount > 0 /\ s.id = NULL -> "Sender wallet not found"
       [] c.amount > 0 /\ s.id # NULL /\ r.id = NULL -> "Recipient wallet not found"
       [] c.amount > 0 /\ s.id # NULL /\ r.id # NULL /\ (~s.is_active \/ s.is_locked)
            -> "Sender wallet is not available"
       [] c.amount > 0 /\ s.id # NULL /\ r.id # NULL /\ s.is_active /\ ~s.is_locked
          /\ s.balance < c.amount -> "Insufficient sender wallet balance"
       [] c.amount > 0 /\ s.id # NULL /\ r.id # NULL /\ s.is_active /\ ~s.is_locked
          /\ s.balance >= c.amount /\ ~r.is_active -> "Recipient wallet is not active"
       [] OTHER -> "ok"

\* C27.  Transfer error precedence: a transfer that ends with an error reports
\* the first failing precondition in that order, and a transfer comes to its
\* commit only when none fails; so an insufficient-balance transfer to an inactive
\* recipient reports the insufficient balance, and a transfer from a locked
\* sender to a missing recipient reports the recipient wallet not found.
C27_TransferErrorPrecedence ==
  \A p \in Procs :
    /\ (pc[p] = "done" /\ cmd[p].op = "transfer" /\ result[p] # "ok")
       => result[p] = FirstFailing(cmd[p])
    /\ pc[p] = "transfer_commit" => FirstFailing(cmd[p]) = "ok"

\* A transfer of more than an open sender holds, to an inactive recipient, has
\* reported the insufficient balance.
C27_Witness ==
  \E p \in Procs :
    /\ pc[p] = "done" /\ cmd[p].op = "transfer"
    /\ result[p] = "Insufficient sender wallet balance"
    /\ snap[p].balance > 0 /\ snap[p].balance < cmd[p].amount
    /\ snap2[p].id # NULL /\ ~snap2[p].is_active

\* Every row references, by exactly one column, a wallet that exists, and every
\* wallet's owner exists.
ReferencesResolve ==
  /\ \A i \in 1..Len(txns) : \E k \in DOMAIN wallets : RefersOnlyTo(txns[i], k)
  /\ \A k \in DOMAIN wallets : <<k[1], wallets[k].owner_id>> \in DOMAIN owners

\* C28.  Referential integrity across owner deletion: after every step, the
\* deletion of a user, vendor or rider that owns a wallet included, every
\* transaction references a wallet that exists and every wallet an owner that
\* exists; a deletion that succeeds removes the owner, its wallet and that
\* wallet's transactions and nothing else, and one that fails leaves owners,
\* wallets and transactions as they were.
C28_ReferentialIntegrity ==
  [][/\ ReferencesResolve'
     /\ \A p \in Procs :
          Takes(p, "delete") =>
            LET key == <<cmd'[p].kind, cmd'[p].owner>>
                owned == WalletsOf(wallets, key[1], key[2])
            IN IF result'[p] = "ok"
                 THEN /\ owners' = Without(owners, {key})
                      /\ wallets' = Without(wallets, owned)
                      /\ txns' = SelectSeq(txns, LAMBDA t :
                                    \A k \in owned : ~RefersTo(t, k))
                 ELSE owners' = owners /\ wallets' = wallets /\ txns' = txns
    ]_vars

====
